---- MODULE Spec2Model ----
(***************************************************************************)
(* Model of src/pages/Dashboard.tsx: the Dashboard component's React state, *)
(* its event handlers and asynchronous continuations, the remote task and   *)
(* profile store behind getTasks/createTask/..., and the change feed.       *)
(*                                                                          *)
(* Strings a handler inspects (title, description, search term, names) are  *)
(* sequences of one-character strings, so trim, toLowerCase and includes    *)
(* are computed.  Optional values (Task | null, Profile | null) are         *)
(* sequences of length 0 or 1.                                              *)
(***************************************************************************)
EXTENDS Integers, Sequences, FiniteSets, TLC

(* ------------------------------ bounds --------------------------------- *)
\* events from outside in one behaviour: clicks, keystroke / select events on
\* the forms and the filter bar, changes of the authenticated user, and
\* changes other clients make to the remote store
MaxEvents == 3
\* remote calls outstanding at once
MaxInFlight == 2

\* runs of loadData in progress at once when the user changes during a load
MaxLoads == 2
\* length of the local task sequence the derived views are computed from
MaxTasks == 3

(* ----------------------------- value sets ------------------------------ *)
NoUser == "none"
Users == {"u1", "u2"}
AllUsers == Users \cup {NoUser}

Statuses == {"pending", "in_progress", "completed"}
Priorities == {"low", "medium", "high"}
\* due_date: string | null on a Task (line 23); '' only in the form buffer
NullDate == "NULL"

\* what the inputs deliver here: a blank and a proper title, one value for
\* each other control
TitleInputs == {<<" ">>, <<"a">>}
TextInputs == {<<"a">>}
StatusInputs == {"completed"}
PriorityInputs == {"low"}
DateInputs == {"2025-01-01"}

(* ------------------------------ strings -------------------------------- *)
Lower(ch) == IF ch = "A" THEN "a" ELSE ch

toLowerCase(s) == [i \in 1..Len(s) |-> Lower(s[i])]

includes(s, sub) ==
    \E i \in 0..(Len(s) - Len(sub)) : SubSeq(s, i + 1, i + Len(sub)) = sub

RECURSIVE trimStart(_)
trimStart(s) == IF s # <<>> /\ Head(s) = " " THEN trimStart(Tail(s)) ELSE s

RECURSIVE trimEnd(_)
trimEnd(s) ==
    IF s # <<>> /\ s[Len(s)] = " " THEN trimEnd(SubSeq(s, 1, Len(s) - 1)) ELSE s

trim(s) == trimEnd(trimStart(s))

Range(s) == {s[i] : i \in 1..Len(s)}

RECURSIVE SelectSeqBy(_, _)
\* s.filter(keep), keep given as the set of kept elements' indices
SelectSeqBy(s, idx) ==
    IF s = <<>> THEN <<>>
    ELSE LET rest == SelectSeqBy(SubSeq(s, 1, Len(s) - 1), idx)
         IN  IF Len(s) \in idx THEN Append(rest, s[Len(s)]) ELSE rest

(* --------------------------- records of the UI ------------------------- *)
\* useState initial value of taskForm (lines 48-60) and every reset of it
EmptyTaskForm ==
    [title |-> <<>>, description |-> <<>>, status |-> "pending",
     priority |-> "medium", due_date |-> ""]

\* useState initial value of profileForm (lines 61-65)
EmptyProfileForm == [first_name |-> <<>>, last_name |-> <<>>, email |-> <<>>]

Toast(t, d, v) == [title |-> t, description |-> d, variant |-> v]

(* ------------------------------ variables ------------------------------ *)
VARIABLES
    user,                \* useAuth().user: a user id or NoUser
    tasks,               \* useState<Task[]>
    profile,             \* useState<Profile | null>: <<>> or <<p>>
    loading,
    searchTerm, statusFilter, priorityFilter,
    isTaskDialogOpen, isProfileDialogOpen,
    editingTask,         \* <<>> or <<task>>
    taskForm, profileForm,
    toasts,              \* toast(): how many notifications so far, and the latest
    consoleErrors,       \* number of console.error calls
    remoteTasks,         \* the remote store's task table
    remoteProfiles,      \* the remote store's profile table: user -> <<>> or <<p>>
    nextId,              \* next identifier the remote store assigns
    calls,               \* remote calls awaiting their continuation
    ncalls,              \* calls issued so far
    channels,            \* change-feed subscriptions: sequence of user ids
    signals,             \* per subscription, change signals not yet delivered
    lastFetch,           \* the successful task fetch processed last: <<>> or <<[id, rows]>>
    newest,              \* highest call id among the successful task fetches processed
    done,                \* the continuation run last: its call's id, kind, st and
                         \* src, and `tasks` before it ran
    events               \* events from outside so far

uiVars == <<searchTerm, statusFilter, priorityFilter, isTaskDialogOpen,
            isProfileDialogOpen, editingTask, taskForm, profileForm>>
remoteVars == <<remoteTasks, remoteProfiles, nextId>>

vars == <<user, tasks, profile, loading, uiVars, toasts, consoleErrors,
          remoteVars, calls, ncalls, channels, signals, lastFetch, newest,
          done, events>>


(* ------------------------------ remote calls --------------------------- *)
\* A call of one of the functions imported at line 12, between its issue and
\* the continuation after its await.  u is `user` of the render whose closure
\* issued it (what loadTasks/loadProfile called by the continuation read);
\* grp is the loadData (Promise.all) it belongs to, 0 for none; src says who
\* issued it ("load", "signal", "click", or the kind of the call whose
\* continuation did); tid is the task the call is about; pre is `tasks` at
\* issue.  st is "sent", then "ok" or "err" once
\* the remote store has answered.
Call(id, kind, u, grp, src) ==
    [id |-> id, kind |-> kind, u |-> u, grp |-> grp, src |-> src,
     st |-> "sent", msg |-> "", uid |-> NoUser, tid |-> 0,
     form |-> EmptyTaskForm, pform |-> EmptyProfileForm,
     rows |-> <<>>, null |-> FALSE, prof |-> <<>>, pre |-> <<>>]

GetTasksCall(id, u, grp, src) ==
    [Call(id, "getTasks", u, grp, src) EXCEPT !.uid = u]

GetProfileCall(id, u, grp, src) ==
    [Call(id, "getProfile", u, grp, src) EXCEPT !.uid = u]

\* room for n more outstanding calls
CanCall(n) == Cardinality(calls) + n <= MaxInFlight

\* loadTasks (lines 109-112): returns at once without a user, else awaits
\* getTasks(user.id).  The set of calls it adds.
loadTasks(u, src) ==
    IF u = NoUser THEN {} ELSE {GetTasksCall(ncalls + 1, u, 0, src)}

\* loadProfile (lines 124-127), likewise
loadProfile(u, src) ==
    IF u = NoUser THEN {} ELSE {GetProfileCall(ncalls + 1, u, 0, src)}

\* loadData (lines 98-103): Promise.all([loadTasks(), loadProfile()])
loadData(u) ==
    IF u = NoUser THEN {}
    ELSE {GetTasksCall(ncalls + 1, u, ncalls + 1, "load"),
          GetProfileCall(ncalls + 2, u, ncalls + 1, "load")}

\* the finally of loadData (line 105) runs once both promises have settled:
\* `loading` after the continuation of call c has run
loadingAfter(c) ==
    IF c.grp # 0 /\ ~\E d \in calls : d.id # c.id /\ d.grp = c.grp THEN FALSE
    ELSE loading

Pending(kind) == {c \in calls : c.kind = kind /\ c.st = "sent"}

(* ------------------------ remote store, change feed --------------------- *)
SeedTask(id, u) ==
    [id |-> id, title |-> <<"A">>, description |-> <<>>, status |-> "pending",
     priority |-> "high", due_date |-> NullDate, user_id |-> u]

SeedProfile(u) ==
    [id |-> u, first_name |-> <<"A">>, last_name |-> <<>>, email |-> <<"a">>]

\* u1 has one task and a profile, u2 has neither
InitialStores == {<<SeedTask(1, "u1")>>}

\* listTasks(userId): the rows scoped to that user, in store order
TasksOf(u) ==
    SelectSeqBy(remoteTasks, {i \in 1..Len(remoteTasks) : remoteTasks[i].user_id = u})

\* one signal to every subscription whose filter is user_id = u
Notify(u) ==
    [i \in 1..Len(channels) |-> signals[i] + (IF channels[i] = u THEN 1 ELSE 0)]

\* RemoteError{message}: the message the remote store gives when it fails an
\* operation; one per operation here
RemoteMessage(kind) ==
    CASE kind \in {"getTasks", "getProfile"} -> "permission denied"
      [] kind \in {"createTask", "updateTask", "updateProfile"} -> "violates constraint"
      [] kind = "deleteTask" -> "row not found"
      [] kind = "signOut" -> "network error"

\* What the awaited call c resolves to: the answer the remote store has given
\* or, while it has given none, an error (the operation fails, nothing is
\* applied to the store).
Responses(c) ==
    IF c.st = "sent" THEN {[c EXCEPT !.st = "err", !.msg = RemoteMessage(c.kind)]}
    ELSE {c}

\* the calls left once the continuation of c has run
Settled(c) == {d \in calls : d.id # c.id}

RowsWithId(id) == {i \in 1..Len(remoteTasks) : remoteTasks[i].id = id}

Answer(c, d) == calls' = (calls \ {c}) \cup {d}

(* ------------------------------- Init ---------------------------------- *)
\* The component just mounted: the useState initial values (lines 39-65) and
\* the effect of lines 67-72 run once for the user the auth context holds.
Init ==
    /\ user \in AllUsers
    /\ tasks = <<>>
    /\ profile = <<>>
    /\ loading = TRUE
    /\ searchTerm = <<>>
    /\ statusFilter = "all"
    /\ priorityFilter = "all"
    /\ isTaskDialogOpen = FALSE
    /\ isProfileDialogOpen = FALSE
    /\ editingTask = <<>>
    /\ taskForm = EmptyTaskForm
    /\ profileForm = EmptyProfileForm
    /\ toasts = [count |-> 0, latest |-> Toast("", "", "")]
    /\ consoleErrors = 0
    /\ remoteTasks \in InitialStores
    /\ remoteProfiles = [u \in Users |-> IF u = "u1" THEN <<SeedProfile(u)>> ELSE <<>>]
    /\ nextId = Len(remoteTasks) + 1
    /\ calls = IF user = NoUser THEN {}
               ELSE {GetTasksCall(1, user, 1, "load"), GetProfileCall(2, user, 1, "load")}
    /\ ncalls = IF user = NoUser THEN 0 ELSE 2
    /\ channels = IF user = NoUser THEN <<>> ELSE <<user>>
    /\ signals = IF user = NoUser THEN <<>> ELSE <<0>>
    /\ lastFetch = <<>>
    /\ newest = 0
    /\ done = [id |-> 0, kind |-> "", st |-> "", src |-> "", before |-> <<>>]
    /\ events = 0

(* ------------------- the auth context changes the user ----------------- *)
\* useEffect(..., [user]) (lines 67-72): loadData() and
\* setupRealtimeSubscription() when there is a user.  The function that
\* setupRealtimeSubscription returns (lines 93-95) is not returned by the
\* effect, so no channel is ever removed.
AuthChangeTo(u) ==
    /\ events < MaxEvents
    /\ u # user
    /\ user' = u
    /\ events' = events + 1
    /\ calls' = calls \cup loadData(u)
    /\ ncalls' = IF u = NoUser THEN ncalls ELSE ncalls + 2
    /\ loading' = IF u = NoUser THEN loading ELSE TRUE
    /\ channels' = IF u = NoUser THEN channels ELSE Append(channels, u)
    /\ signals' = IF u = NoUser THEN signals ELSE Append(signals, 0)
    /\ UNCHANGED <<done, tasks, profile, uiVars, toasts, consoleErrors, remoteVars,
                   lastFetch, newest>>

\* a change of user while there is room for the two calls of loadData
AuthChange(u) == (u = NoUser \/ CanCall(2)) /\ AuthChangeTo(u)

(* ------------------------- the remote store answers -------------------- *)
ServeGetTasks(c) ==
    /\ c \in Pending("getTasks")
    /\ \E n \in (IF TasksOf(c.uid) = <<>> THEN BOOLEAN ELSE {FALSE}) :
          Answer(c, [c EXCEPT !.st = "ok", !.rows = TasksOf(c.uid), !.null = n])
    /\ UNCHANGED <<done, user, tasks, profile, loading, uiVars, toasts, consoleErrors,
                   remoteVars, ncalls, channels, signals, lastFetch, newest, events>>

ServeGetProfile(c) ==
    /\ c \in Pending("getProfile")
    /\ Answer(c, [c EXCEPT !.st = "ok", !.prof = remoteProfiles[c.uid]])
    /\ UNCHANGED <<done, user, tasks, profile, loading, uiVars, toasts, consoleErrors,
                   remoteVars, ncalls, channels, signals, lastFetch, newest, events>>

ServeCreateTask(c) ==
    /\ c \in Pending("createTask")
    /\ remoteTasks' = Append(remoteTasks,
          [id |-> nextId, title |-> c.form.title, description |-> c.form.description,
           status |-> c.form.status, priority |-> c.form.priority,
           due_date |-> c.form.due_date, user_id |-> c.uid])
    /\ nextId' = nextId + 1
    /\ signals' = Notify(c.uid)
    /\ Answer(c, [c EXCEPT !.st = "ok", !.tid = nextId])
    /\ UNCHANGED <<done, user, tasks, profile, loading, uiVars, toasts, consoleErrors,
                   remoteProfiles, ncalls, channels, lastFetch, newest, events>>

\* a partial update of the row with that identifier; no row, no change
ServeUpdateTask(c) ==
    /\ c \in Pending("updateTask")
    /\ remoteTasks' = [i \in 1..Len(remoteTasks) |->
          IF remoteTasks[i].id = c.tid
          THEN [remoteTasks[i] EXCEPT !.title = c.form.title,
                    !.description = c.form.description, !.status = c.form.status,
                    !.priority = c.form.priority, !.due_date = c.form.due_date]
          ELSE remoteTasks[i]]
    /\ signals' = IF RowsWithId(c.tid) = {} THEN signals
                  ELSE Notify(remoteTasks[CHOOSE i \in RowsWithId(c.tid) : TRUE].user_id)
    /\ Answer(c, [c EXCEPT !.st = "ok"])
    /\ UNCHANGED <<done, user, tasks, profile, loading, uiVars, toasts, consoleErrors,
                   remoteProfiles, nextId, ncalls, channels, lastFetch, newest, events>>

ServeDeleteTask(c) ==
    /\ c \in Pending("deleteTask")
    /\ remoteTasks' = SelectSeqBy(remoteTasks,
                          (1..Len(remoteTasks)) \ RowsWithId(c.tid))
    /\ signals' = IF RowsWithId(c.tid) = {} THEN signals
                  ELSE Notify(remoteTasks[CHOOSE i \in RowsWithId(c.tid) : TRUE].user_id)
    /\ Answer(c, [c EXCEPT !.st = "ok"])
    /\ UNCHANGED <<done, user, tasks, profile, loading, uiVars, toasts, consoleErrors,
                   remoteProfiles, nextId, ncalls, channels, lastFetch, newest, events>>

ServeUpdateProfile(c) ==
    /\ c \in Pending("updateProfile")
    /\ remoteProfiles' = [remoteProfiles EXCEPT ![c.uid] =
          IF @ = <<>> THEN @
          ELSE <<[id |-> c.uid, first_name |-> c.pform.first_name,
                  last_name |-> c.pform.last_name, email |-> c.pform.email]>>]
    /\ Answer(c, [c EXCEPT !.st = "ok"])
    /\ UNCHANGED <<done, user, tasks, profile, loading, uiVars, toasts, consoleErrors,
                   remoteTasks, nextId, ncalls, channels, signals, lastFetch, newest,
                   events>>

ServeSignOut(c) ==
    /\ c \in Pending("signOut")
    /\ Answer(c, [c EXCEPT !.st = "ok"])
    /\ UNCHANGED <<done, user, tasks, profile, loading, uiVars, toasts, consoleErrors,
                   remoteVars, ncalls, channels, signals, lastFetch, newest, events>>

(* ----------------- other clients change the remote store --------------- *)
RemoteInsert(u) ==
    /\ events < MaxEvents
    /\ remoteTasks' = Append(remoteTasks, SeedTask(nextId, u))
    /\ nextId' = nextId + 1
    /\ signals' = Notify(u)
    /\ events' = events + 1
    /\ UNCHANGED <<done, user, tasks, profile, loading, uiVars, toasts, consoleErrors,
                   remoteProfiles, calls, ncalls, channels, lastFetch, newest>>

RemoteUpdate(i) ==
    /\ events < MaxEvents
    /\ i \in 1..Len(remoteTasks)
    /\ remoteTasks[i].status # "completed"
    /\ remoteTasks' = [remoteTasks EXCEPT ![i].status = "completed"]
    /\ signals' = Notify(remoteTasks[i].user_id)
    /\ events' = events + 1
    /\ UNCHANGED <<done, user, tasks, profile, loading, uiVars, toasts, consoleErrors,
                   remoteProfiles, nextId, calls, ncalls, channels, lastFetch, newest>>

RemoteDelete(i) ==
    /\ events < MaxEvents
    /\ i \in 1..Len(remoteTasks)
    /\ remoteTasks' = SelectSeqBy(remoteTasks, (1..Len(remoteTasks)) \ {i})
    /\ signals' = Notify(remoteTasks[i].user_id)
    /\ events' = events + 1
    /\ UNCHANGED <<done, user, tasks, profile, loading, uiVars, toasts, consoleErrors,
                   remoteProfiles, nextId, calls, ncalls, channels, lastFetch, newest>>

(* ------------------------- derived values (render) --------------------- *)
FilterCaseSensitive(ts, term, sf, pf) ==
    SelectSeqBy(ts, {i \in 1..Len(ts) :
        /\ includes(ts[i].title, term) \/ includes(ts[i].description, term)
        /\ sf = "all" \/ ts[i].status = sf
        /\ pf = "all" \/ ts[i].priority = pf})

taskStatsPendingOpen ==
    [total |-> Len(tasks),
     completed |-> Cardinality({i \in 1..Len(tasks) : tasks[i].status = "completed"}),
     pending |-> Cardinality({i \in 1..Len(tasks) : tasks[i].status # "completed"}),
     inProgress |-> Cardinality({i \in 1..Len(tasks) : tasks[i].status = "in_progress"})]

\* lines 249-255
Filter(ts, term, sf, pf) ==
    SelectSeqBy(ts, {i \in 1..Len(ts) :
        /\ \/ includes(toLowerCase(ts[i].title), toLowerCase(term))
           \/ includes(toLowerCase(ts[i].description), toLowerCase(term))
        /\ sf = "all" \/ ts[i].status = sf
        /\ pf = "all" \/ ts[i].priority = pf})

filteredTasks == Filter(tasks, searchTerm, statusFilter, priorityFilter)

\* lines 309-315: only the spinner is rendered while loading.  The dialogs
\* are modal: while one is open the page behind it takes no input.
PageActive == ~loading /\ ~isTaskDialogOpen /\ ~isProfileDialogOpen
TaskDialogActive == ~loading /\ isTaskDialogOpen
ProfileDialogActive == ~loading /\ isProfileDialogOpen

\* lines 302-307
taskStats ==
    [total |-> Len(tasks),
     completed |-> Cardinality({i \in 1..Len(tasks) : tasks[i].status = "completed"}),
     pending |-> Cardinality({i \in 1..Len(tasks) : tasks[i].status = "pending"}),
     inProgress |-> Cardinality({i \in 1..Len(tasks) : tasks[i].status = "in_progress"})]

(* -------------------------------- toasts -------------------------------- *)
ErrorTitle(kind) ==
    CASE kind = "getTasks" -> "Error loading tasks"
      [] kind = "createTask" -> "Error creating task"
      [] kind = "updateTask" -> "Error updating task"
      [] kind = "deleteTask" -> "Error deleting task"
      [] kind = "updateProfile" -> "Error updating profile"
      [] kind = "signOut" -> "Error signing out"

ErrorToastFixedText(c) ==
    Toast(ErrorTitle(c.kind), "Something went wrong", "destructive")

\* toast({title, description: error.message, variant: "destructive"})
\* (lines 114-118, 151-155, 178-182, 204-208, 223-227, 241-245)
ErrorToast(c) == Toast(ErrorTitle(c.kind), c.msg, "destructive")

SuccessToast(kind) ==
    CASE kind = "createTask" ->
            Toast("Task created", "Your task has been created successfully.", "default")
      [] kind = "updateTask" ->
            Toast("Task updated", "Your task has been updated successfully.", "default")
      [] kind = "deleteTask" ->
            Toast("Task deleted", "Your task has been deleted successfully.", "default")
      [] kind = "updateProfile" ->
            Toast("Profile updated", "Your profile has been updated successfully.", "default")

\* the toast a handler emits once its call has been answered
toastsAfter(c) ==
    [count |-> toasts.count + 1,
     latest |-> IF c.st = "err" THEN ErrorToast(c) ELSE SuccessToast(c.kind)]

(* ------------------------------ loadTasks ------------------------------- *)
\* (data || []) (line 120)
dataOrEmpty(c) == IF c.null THEN <<>> ELSE c.rows

tasksAfterLoadTasksCleared(c) == IF c.st = "err" THEN <<>> ELSE dataOrEmpty(c)

tasksAfterLoadTasksMerged(c) ==
    IF c.st = "err" THEN tasks ELSE tasks \o dataOrEmpty(c)

tasksAfterLoadTasksNewest(c) ==
    IF c.st = "err" \/ newest > c.id THEN tasks ELSE dataOrEmpty(c)

\* lines 113-121: setTasks only in the else branch
tasksAfterLoadTasks(c) == IF c.st = "err" THEN tasks ELSE dataOrEmpty(c)

LoadTasksDoneRevalidates(c) ==
    /\ c.kind = "getTasks"
    /\ tasks' = tasksAfterLoadTasks(c)
    /\ editingTask' = IF editingTask # <<>> /\ editingTask[1] \notin Range(tasks')
                      THEN <<>> ELSE editingTask
    /\ toasts' = IF c.st = "err" THEN toastsAfter(c) ELSE toasts
    /\ loading' = loadingAfter(c)
    /\ calls' = Settled(c)
    /\ lastFetch' = IF c.st = "err" THEN lastFetch
                    ELSE <<[id |-> c.id, rows |-> dataOrEmpty(c)]>>
    /\ newest' = IF c.st = "ok" /\ c.id > newest THEN c.id ELSE newest
    /\ done' = [id |-> c.id, kind |-> c.kind, st |-> c.st, src |-> c.src,
                before |-> tasks]
    /\ UNCHANGED <<user, profile, searchTerm, statusFilter, priorityFilter,
                   isTaskDialogOpen, isProfileDialogOpen, taskForm, profileForm,
                   consoleErrors, remoteVars, ncalls, channels, signals, events>>

\* the continuation of loadTasks after `await getTasks(user.id)`
LoadTasksDone(c) ==
    /\ c.kind = "getTasks"
    /\ tasks' = tasksAfterLoadTasks(c)
    /\ toasts' = IF c.st = "err" THEN toastsAfter(c) ELSE toasts
    /\ loading' = loadingAfter(c)
    /\ calls' = Settled(c)
    /\ lastFetch' = IF c.st = "err" THEN lastFetch
                    ELSE <<[id |-> c.id, rows |-> dataOrEmpty(c)]>>
    /\ newest' = IF c.st = "ok" /\ c.id > newest THEN c.id ELSE newest
    /\ done' = [id |-> c.id, kind |-> c.kind, st |-> c.st, src |-> c.src,
                before |-> tasks]
    /\ UNCHANGED <<user, profile, uiVars, consoleErrors, remoteVars, ncalls,
                   channels, signals, events>>

(* ----------------------------- loadProfile ------------------------------ *)
\* lines 128-129: console.error only
toastsAfterLoadProfile(c) == toasts

\* the continuation of loadProfile after `await getProfile(user.id)`
\* (lines 128-137)
LoadProfileDone(c) ==
    /\ c.kind = "getProfile"
    /\ consoleErrors' = IF c.st = "err" THEN consoleErrors + 1 ELSE consoleErrors
    /\ toasts' = toastsAfterLoadProfile(c)
    /\ profile' = IF c.st = "ok" /\ c.prof # <<>> THEN c.prof ELSE profile
    /\ profileForm' = IF c.st = "ok" /\ c.prof # <<>>
                      THEN [first_name |-> c.prof[1].first_name,
                            last_name |-> c.prof[1].last_name,
                            email |-> c.prof[1].email]
                      ELSE profileForm
    /\ loading' = loadingAfter(c)
    /\ calls' = Settled(c)
    /\ done' = [id |-> c.id, kind |-> c.kind, st |-> c.st, src |-> c.src,
                before |-> tasks]
    /\ UNCHANGED <<user, tasks, searchTerm, statusFilter, priorityFilter,
                   isTaskDialogOpen, isProfileDialogOpen, editingTask, taskForm,
                   remoteVars, ncalls, channels, signals, lastFetch, newest, events>>

(* ------------------------- change-feed callback ------------------------- *)
onRemoteChangeDebounced(u) ==
    IF Pending("getTasks") # {} THEN {} ELSE loadTasks(u, "signal")

\* lines 87-89: () => { loadTasks(); } of the render that subscribed
onRemoteChange(u) == loadTasks(u, "signal")

DeliverSignal(i) ==
    /\ i \in 1..Len(channels)
    /\ CanCall(1)
    /\ signals[i] > 0
    /\ signals' = [signals EXCEPT ![i] = @ - 1]
    /\ calls' = calls \cup onRemoteChange(channels[i])
    /\ ncalls' = ncalls + Cardinality(onRemoteChange(channels[i]))
    /\ UNCHANGED <<done, user, tasks, profile, loading, uiVars, toasts, consoleErrors,
                   remoteVars, channels, lastFetch, newest, events>>

(* ------------------- create / update / delete a task -------------------- *)
refreshAfterAlways(c) == {[d EXCEPT !.tid = c.tid] : d \in loadTasks(c.u, c.kind)}

\* loadTasks() is called in the else branch only (lines 169, 197, 214).  The
\* fetch is tagged with the handler that issued it and the task it was about.
refreshAfter(c) ==
    IF c.st = "ok" THEN {[d EXCEPT !.tid = c.tid] : d \in loadTasks(c.u, c.kind)}
    ELSE {}

tasksAfterMutationRolledBack(c) == IF c.st = "err" THEN c.pre ELSE tasks

tasksAfterMutationOptimistic(c) ==
    IF c.st = "ok" /\ c.kind = "deleteTask"
    THEN SelectSeqBy(tasks, {i \in 1..Len(tasks) : tasks[i].id # c.tid})
    ELSE tasks

tasksAfterMutationSynthesized(c) ==
    IF c.st = "ok" /\ c.kind = "createTask"
    THEN Append(tasks, [id |-> 0, title |-> c.form.title,
                        description |-> c.form.description, status |-> c.form.status,
                        priority |-> c.form.priority, due_date |-> c.form.due_date,
                        user_id |-> c.uid])
    ELSE tasks

\* none of the three handlers calls setTasks (lines 140-216)
tasksAfterMutation(c) == tasks

\* lines 140-149
handleCreateTask ==
    /\ user # NoUser
    /\ CanCall(1)
    /\ trim(taskForm.title) # <<>>
    /\ events < MaxEvents
    /\ events' = events + 1
    /\ calls' = calls \cup
          {[Call(ncalls + 1, "createTask", user, 0, "click") EXCEPT
               !.uid = user,
               !.form = [taskForm EXCEPT !.due_date =
                            IF taskForm.due_date = "" THEN NullDate ELSE taskForm.due_date],
               !.pre = tasks]}
    /\ ncalls' = ncalls + 1
    /\ UNCHANGED <<done, user, tasks, profile, loading, uiVars, toasts, consoleErrors,
                   remoteVars, channels, signals, lastFetch, newest>>

\* lines 150-170
CreateTaskDone(c) ==
    /\ c.kind = "createTask"
    /\ toasts' = toastsAfter(c)
    /\ tasks' = tasksAfterMutation(c)
    /\ taskForm' = IF c.st = "ok" THEN EmptyTaskForm ELSE taskForm
    /\ isTaskDialogOpen' = IF c.st = "ok" THEN FALSE ELSE isTaskDialogOpen
    /\ calls' = Settled(c) \cup refreshAfter(c)
    /\ ncalls' = ncalls + Cardinality(refreshAfter(c))
    /\ done' = [id |-> c.id, kind |-> c.kind, st |-> c.st, src |-> c.src,
                before |-> tasks]
    /\ UNCHANGED <<user, profile, loading, searchTerm, statusFilter,
                   priorityFilter, isProfileDialogOpen, editingTask, profileForm,
                   consoleErrors, remoteVars, channels, signals, lastFetch, newest,
                   events>>

\* lines 173-176
handleUpdateTask ==
    /\ editingTask # <<>>
    /\ CanCall(1)
    /\ events < MaxEvents
    /\ events' = events + 1
    /\ calls' = calls \cup
          {[Call(ncalls + 1, "updateTask", user, 0, "click") EXCEPT
               !.tid = editingTask[1].id, !.form = taskForm, !.pre = tasks]}
    /\ ncalls' = ncalls + 1
    /\ UNCHANGED <<done, user, tasks, profile, loading, uiVars, toasts, consoleErrors,
                   remoteVars, channels, signals, lastFetch, newest>>

UpdateTaskDoneClosesAlways(c) ==
    /\ c.kind = "updateTask"
    /\ toasts' = toastsAfter(c)
    /\ tasks' = tasksAfterMutation(c)
    /\ editingTask' = <<>>
    /\ taskForm' = EmptyTaskForm
    /\ isTaskDialogOpen' = FALSE
    /\ calls' = Settled(c) \cup refreshAfter(c)
    /\ ncalls' = ncalls + Cardinality(refreshAfter(c))
    /\ done' = [id |-> c.id, kind |-> c.kind, st |-> c.st, src |-> c.src,
                before |-> tasks]
    /\ UNCHANGED <<user, profile, loading, searchTerm, statusFilter,
                   priorityFilter, isProfileDialogOpen, profileForm,
                   consoleErrors, remoteVars, channels, signals, lastFetch, newest,
                   events>>

\* lines 177-198
UpdateTaskDone(c) ==
    /\ c.kind = "updateTask"
    /\ toasts' = toastsAfter(c)
    /\ tasks' = tasksAfterMutation(c)
    /\ editingTask' = IF c.st = "ok" THEN <<>> ELSE editingTask
    /\ taskForm' = IF c.st = "ok" THEN EmptyTaskForm ELSE taskForm
    /\ isTaskDialogOpen' = IF c.st = "ok" THEN FALSE ELSE isTaskDialogOpen
    /\ calls' = Settled(c) \cup refreshAfter(c)
    /\ ncalls' = ncalls + Cardinality(refreshAfter(c))
    /\ done' = [id |-> c.id, kind |-> c.kind, st |-> c.st, src |-> c.src,
                before |-> tasks]
    /\ UNCHANGED <<user, profile, loading, searchTerm, statusFilter,
                   priorityFilter, isProfileDialogOpen, profileForm,
                   consoleErrors, remoteVars, channels, signals, lastFetch, newest,
                   events>>

\* line 201-202, from the button of a rendered task (line 601)
handleDeleteTask(taskId) ==
    /\ PageActive
    /\ CanCall(1)
    /\ taskId \in {t.id : t \in Range(filteredTasks)}
    /\ events < MaxEvents
    /\ events' = events + 1
    /\ calls' = calls \cup
          {[Call(ncalls + 1, "deleteTask", user, 0, "click") EXCEPT
               !.tid = taskId, !.pre = tasks]}
    /\ ncalls' = ncalls + 1
    /\ UNCHANGED <<done, user, tasks, profile, loading, uiVars, toasts, consoleErrors,
                   remoteVars, channels, signals, lastFetch, newest>>

\* lines 203-215
DeleteTaskDone(c) ==
    /\ c.kind = "deleteTask"
    /\ toasts' = toastsAfter(c)
    /\ tasks' = tasksAfterMutation(c)
    /\ calls' = Settled(c) \cup refreshAfter(c)
    /\ ncalls' = ncalls + Cardinality(refreshAfter(c))
    /\ done' = [id |-> c.id, kind |-> c.kind, st |-> c.st, src |-> c.src,
                before |-> tasks]
    /\ UNCHANGED <<user, profile, loading, uiVars, consoleErrors, remoteVars,
                   channels, signals, lastFetch, newest, events>>

\* line 512: onClick={editingTask ? handleUpdateTask : handleCreateTask}
SubmitTaskForm ==
    /\ TaskDialogActive
    /\ IF editingTask # <<>> THEN handleUpdateTask ELSE handleCreateTask

(* ----------------------- profile update, sign-out ----------------------- *)
\* lines 218-221, from the button at line 374
handleUpdateProfile ==
    /\ ProfileDialogActive
    /\ CanCall(1)
    /\ user # NoUser
    /\ events < MaxEvents
    /\ events' = events + 1
    /\ calls' = calls \cup
          {[Call(ncalls + 1, "updateProfile", user, 0, "click") EXCEPT
               !.uid = user, !.pform = profileForm]}
    /\ ncalls' = ncalls + 1
    /\ UNCHANGED <<done, user, tasks, profile, loading, uiVars, toasts, consoleErrors,
                   remoteVars, channels, signals, lastFetch, newest>>

\* lines 222-235
UpdateProfileDone(c) ==
    /\ c.kind = "updateProfile"
    /\ toasts' = toastsAfter(c)
    /\ isProfileDialogOpen' = IF c.st = "ok" THEN FALSE ELSE isProfileDialogOpen
    /\ calls' = Settled(c) \cup
                (IF c.st = "ok" THEN loadProfile(c.u, c.kind) ELSE {})
    /\ ncalls' = IF c.st = "ok" THEN ncalls + 1 ELSE ncalls
    /\ done' = [id |-> c.id, kind |-> c.kind, st |-> c.st, src |-> c.src,
                before |-> tasks]
    /\ UNCHANGED <<user, tasks, profile, loading, searchTerm, statusFilter,
                   priorityFilter, isTaskDialogOpen, editingTask, taskForm,
                   profileForm, consoleErrors, remoteVars, channels, signals,
                   lastFetch, newest, events>>

\* lines 238-239, from the button at line 380
handleSignOut ==
    /\ PageActive
    /\ CanCall(1)
    /\ events < MaxEvents
    /\ events' = events + 1
    /\ calls' = calls \cup {Call(ncalls + 1, "signOut", user, 0, "click")}
    /\ ncalls' = ncalls + 1
    /\ UNCHANGED <<done, user, tasks, profile, loading, uiVars, toasts, consoleErrors,
                   remoteVars, channels, signals, lastFetch, newest>>

\* lines 240-246: nothing is done on success
SignOutDone(c) ==
    /\ c.kind = "signOut"
    /\ toasts' = IF c.st = "err" THEN toastsAfter(c) ELSE toasts
    /\ calls' = Settled(c)
    /\ done' = [id |-> c.id, kind |-> c.kind, st |-> c.st, src |-> c.src,
                before |-> tasks]
    /\ UNCHANGED <<user, tasks, profile, loading, uiVars, consoleErrors,
                   remoteVars, ncalls, channels, signals, lastFetch, newest, events>>

(* --------------------------- dialogs and forms -------------------------- *)
openTaskDialogKeepsBuffer(t) ==
    /\ PageActive
    /\ events < MaxEvents
    /\ events' = events + 1
    /\ IF t = <<>> THEN TRUE ELSE t[1] \in Range(filteredTasks)
    /\ editingTask' = IF t = <<>> THEN editingTask ELSE t
    /\ taskForm' = IF t = <<>> THEN taskForm
                   ELSE [title |-> t[1].title, description |-> t[1].description,
                         status |-> t[1].status, priority |-> t[1].priority,
                         due_date |-> IF t[1].due_date = NullDate THEN ""
                                      ELSE t[1].due_date]
    /\ isTaskDialogOpen' = TRUE
    /\ UNCHANGED <<done, user, tasks, profile, loading, searchTerm, statusFilter,
                   priorityFilter, isProfileDialogOpen, profileForm, toasts,
                   consoleErrors, remoteVars, calls, ncalls, channels, signals,
                   lastFetch, newest>>

\* lines 279-300; without a task from the "Add Task" button (line 439), with
\* one from the edit button of a rendered task (line 594)
openTaskDialog(t) ==
    /\ PageActive
    /\ events < MaxEvents
    /\ events' = events + 1
    /\ IF t = <<>> THEN TRUE ELSE t[1] \in Range(filteredTasks)
    /\ editingTask' = t
    /\ taskForm' = IF t = <<>> THEN EmptyTaskForm
                   ELSE [title |-> t[1].title, description |-> t[1].description,
                         status |-> t[1].status, priority |-> t[1].priority,
                         due_date |-> IF t[1].due_date = NullDate THEN ""
                                      ELSE t[1].due_date]
    /\ isTaskDialogOpen' = TRUE
    /\ UNCHANGED <<done, user, tasks, profile, loading, searchTerm, statusFilter,
                   priorityFilter, isProfileDialogOpen, profileForm, toasts,
                   consoleErrors, remoteVars, calls, ncalls, channels, signals,
                   lastFetch, newest>>

\* Cancel (line 509) and the dialog's own close (onOpenChange, line 437)
closeTaskDialog ==
    /\ TaskDialogActive
    /\ events < MaxEvents
    /\ events' = events + 1
    /\ isTaskDialogOpen' = FALSE
    /\ UNCHANGED <<done, user, tasks, profile, loading, searchTerm, statusFilter,
                   priorityFilter, isProfileDialogOpen, editingTask, taskForm,
                   profileForm, toasts, consoleErrors, remoteVars, calls, ncalls,
                   channels, signals, lastFetch, newest>>

\* the onChange / onValueChange of the task form (lines 457, 466, 473, 486, 504)
setTaskForm(f) ==
    /\ TaskDialogActive
    /\ events < MaxEvents
    /\ f # taskForm
    /\ taskForm' = f
    /\ events' = events + 1
    /\ UNCHANGED <<done, user, tasks, profile, loading, searchTerm, statusFilter,
                   priorityFilter, isTaskDialogOpen, isProfileDialogOpen,
                   editingTask, profileForm, toasts, consoleErrors, remoteVars,
                   calls, ncalls, channels, signals, lastFetch, newest>>

EditTaskForm ==
    \/ \E v \in TitleInputs : setTaskForm([taskForm EXCEPT !.title = v])
    \/ \E v \in TextInputs : setTaskForm([taskForm EXCEPT !.description = v])
    \/ \E v \in StatusInputs : setTaskForm([taskForm EXCEPT !.status = v])
    \/ \E v \in PriorityInputs : setTaskForm([taskForm EXCEPT !.priority = v])
    \/ \E v \in DateInputs : setTaskForm([taskForm EXCEPT !.due_date = v])

\* the profile dialog's trigger (lines 327-333), Cancel (line 371) and close
setIsProfileDialogOpen(b) ==
    /\ IF b THEN PageActive ELSE ProfileDialogActive
    /\ events < MaxEvents
    /\ events' = events + 1
    /\ isProfileDialogOpen' = b
    /\ UNCHANGED <<done, user, tasks, profile, loading, searchTerm, statusFilter,
                   priorityFilter, isTaskDialogOpen, editingTask, taskForm,
                   profileForm, toasts, consoleErrors, remoteVars, calls, ncalls,
                   channels, signals, lastFetch, newest>>

\* the onChange of the profile form (lines 348, 356, 366)
setProfileForm(f) ==
    /\ ProfileDialogActive
    /\ events < MaxEvents
    /\ f # profileForm
    /\ profileForm' = f
    /\ events' = events + 1
    /\ UNCHANGED <<done, user, tasks, profile, loading, searchTerm, statusFilter,
                   priorityFilter, isTaskDialogOpen, isProfileDialogOpen,
                   editingTask, taskForm, toasts, consoleErrors, remoteVars,
                   calls, ncalls, channels, signals, lastFetch, newest>>

EditProfileForm ==
    \/ \E v \in TextInputs : setProfileForm([profileForm EXCEPT !.first_name = v])
    \/ \E v \in TextInputs : setProfileForm([profileForm EXCEPT !.last_name = v])
    \/ \E v \in TextInputs : setProfileForm([profileForm EXCEPT !.email = v])

\* the filter bar (lines 528, 532, 544)
setFilters(term, sf, pf) ==
    /\ PageActive
    /\ events < MaxEvents
    /\ <<term, sf, pf>> # <<searchTerm, statusFilter, priorityFilter>>
    /\ searchTerm' = term
    /\ statusFilter' = sf
    /\ priorityFilter' = pf
    /\ events' = events + 1
    /\ UNCHANGED <<done, user, tasks, profile, loading, isTaskDialogOpen,
                   isProfileDialogOpen, editingTask, taskForm, profileForm,
                   toasts, consoleErrors, remoteVars, calls, ncalls, channels,
                   signals, lastFetch, newest>>

EditFilters ==
    \/ \E v \in TextInputs : setFilters(v, statusFilter, priorityFilter)
    \/ \E v \in StatusInputs : setFilters(searchTerm, v, priorityFilter)
    \/ \E v \in PriorityInputs : setFilters(searchTerm, statusFilter, v)

(* ------------------------------ specification --------------------------- *)
Next ==
    \/ \E u \in AllUsers : AuthChange(u)
    \/ \E c \in calls : ServeGetTasks(c)
    \/ \E c \in calls : ServeGetProfile(c)
    \/ \E c \in calls : ServeCreateTask(c)
    \/ \E c \in calls : ServeUpdateTask(c)
    \/ \E c \in calls : ServeDeleteTask(c)
    \/ \E c \in calls : ServeUpdateProfile(c)
    \/ \E c \in calls : ServeSignOut(c)
    \/ \E u \in Users : RemoteInsert(u)
    \/ \E i \in 1..Len(remoteTasks) : RemoteUpdate(i)
    \/ \E i \in 1..Len(remoteTasks) : RemoteDelete(i)
    \/ \E i \in 1..Len(channels) : DeliverSignal(i)
    \/ \E c \in calls : \E r \in Responses(c) : LoadTasksDone(r)
    \/ \E c \in calls : \E r \in Responses(c) : LoadProfileDone(r)
    \/ \E c \in calls : \E r \in Responses(c) : CreateTaskDone(r)
    \/ \E c \in calls : \E r \in Responses(c) : UpdateTaskDone(r)
    \/ \E c \in calls : \E r \in Responses(c) : DeleteTaskDone(r)
    \/ \E c \in calls : \E r \in Responses(c) : UpdateProfileDone(r)
    \/ \E c \in calls : \E r \in Responses(c) : SignOutDone(r)
    \/ SubmitTaskForm
    \/ \E t \in Range(filteredTasks) : handleDeleteTask(t.id)
    \/ handleUpdateProfile
    \/ handleSignOut
    \/ \E t \in {<<>>} \cup {<<x>> : x \in Range(filteredTasks)} : openTaskDialog(t)
    \/ closeTaskDialog
    \/ EditTaskForm
    \/ \E b \in BOOLEAN : setIsProfileDialogOpen(b)
    \/ EditProfileForm
    \/ EditFilters

Spec == Init /\ [][Next]_vars

(* ----------------------- the derived views alone ----------------------- *)
\* Rows as getTasks can deliver them (setTasks(data || []), line 120, takes
\* whatever the store holds): titles and descriptions over A, a, b, every
\* status and priority, and one row whose status is none of the three.
TaskPool ==
    {[id |-> 1, title |-> <<"A", "b">>, description |-> <<>>, status |-> "pending",
      priority |-> "high", due_date |-> NullDate, user_id |-> "u1"],
     [id |-> 2, title |-> <<"b">>, description |-> <<"b", "A">>, status |-> "completed",
      priority |-> "low", due_date |-> "2025-01-01", user_id |-> "u1"],
     [id |-> 3, title |-> <<"b">>, description |-> <<>>, status |-> "in_progress",
      priority |-> "medium", due_date |-> NullDate, user_id |-> "u1"],
     [id |-> 4, title |-> <<"a">>, description |-> <<"b">>, status |-> "archived",
      priority |-> "low", due_date |-> NullDate, user_id |-> "u1"]}

\* the sequences of at most MaxTasks distinct rows
TaskSeqs ==
    UNION {{q \in [1..n -> TaskPool] : \A i, j \in 1..n : q[i] = q[j] => i = j} :
           n \in 0..MaxTasks}

SearchTerms == {<<>>, <<"a">>, <<"A">>, <<"a", "b">>, <<"b", "b">>}

\* The page of u1 at rest after a fetch that brought `tasks`, with the filter
\* bar in any position.
ViewInit ==
    /\ user = "u1"
    /\ tasks \in TaskSeqs
    /\ remoteTasks = tasks
    /\ nextId = 5
    /\ remoteProfiles = [u \in Users |-> IF u = "u1" THEN <<SeedProfile(u)>> ELSE <<>>]
    /\ profile = <<SeedProfile("u1")>>
    /\ profileForm = [first_name |-> <<"A">>, last_name |-> <<>>, email |-> <<"a">>]
    /\ loading = FALSE
    /\ searchTerm \in SearchTerms
    /\ statusFilter \in {"all"} \cup Statuses
    /\ priorityFilter \in {"all"} \cup Priorities
    /\ isTaskDialogOpen = FALSE
    /\ isProfileDialogOpen = FALSE
    /\ editingTask = <<>>
    /\ taskForm = EmptyTaskForm
    /\ toasts = [count |-> 0, latest |-> Toast("", "", "")]
    /\ consoleErrors = 0
    /\ calls = {}
    /\ ncalls = 2
    /\ channels = <<"u1">>
    /\ signals = <<0>>
    /\ lastFetch = <<[id |-> 1, rows |-> tasks]>>
    /\ newest = 1
    /\ done = [id |-> 2, kind |-> "getProfile", st |-> "ok", src |-> "load",
               before |-> tasks]
    /\ events = 0

ViewNext == EditFilters

SpecView == ViewInit /\ [][ViewNext]_vars

(* ------------------------- the task dialog alone ----------------------- *)
\* the page of ViewInit with the filter bar untouched
FormInit ==
    /\ ViewInit
    /\ searchTerm = <<>> /\ statusFilter = "all" /\ priorityFilter = "all"

\* the task dialog's buttons and controls; the requests a submit sends are
\* left unanswered
FormNext ==
    \/ \E t \in {<<>>} \cup {<<x>> : x \in Range(filteredTasks)} : openTaskDialog(t)
    \/ closeTaskDialog
    \/ EditTaskForm
    \/ SubmitTaskForm

SpecForm == FormInit /\ [][FormNext]_vars

(* ------------------------- loads and user changes ---------------------- *)
\* Mount, changes of the authenticated user at any moment (also while the
\* calls of an earlier loadData are outstanding), and the loads they start.
AuthChangeDuringLoad(u) ==
    /\ u = NoUser \/ Cardinality({c.grp : c \in calls} \ {0}) < MaxLoads
    /\ AuthChangeTo(u)

LoadNext ==
    \/ \E u \in AllUsers : AuthChangeDuringLoad(u)
    \/ \E c \in calls : ServeGetTasks(c)
    \/ \E c \in calls : ServeGetProfile(c)
    \/ \E c \in calls : \E r \in Responses(c) : LoadTasksDone(r)
    \/ \E c \in calls : \E r \in Responses(c) : LoadProfileDone(r)

SpecLoad == Init /\ [][LoadNext]_vars

(* ------------------------------ properties ------------------------------ *)
\* the continuation of call c runs in this step
Processed(c) == c \in calls /\ \A d \in calls' : d.id # c.id

\* the calls issued in this step
NewCalls == {d \in calls' : \A c \in calls : c.id # d.id}

MutationKinds == {"createTask", "updateTask", "deleteTask"}

\* a call still unanswered when its continuation runs has failed
FailedNow(c) == c.st = "sent" /\ Processed(c)
SucceededNow(c) == c.st = "ok" /\ Processed(c)

\* C1: when a task fetch returns an error, the local task sequence is what it
\* was immediately before the response was processed, and one destructive
\* notification with the remote error's message is emitted.
C1_FailedFetchLeavesTasks ==
    [][\A c \in calls : (c.kind = "getTasks" /\ FailedNow(c)) =>
          /\ tasks' = tasks
          /\ toasts' = [count |-> toasts.count + 1,
                        latest |-> Toast("Error loading tasks",
                                         RemoteMessage("getTasks"), "destructive")]
      ]_vars

\* a fetch has just failed while the local sequence held tasks
C1_Witness ==
    /\ done.kind = "getTasks" /\ done.st = "err"
    /\ done.before # <<>> /\ tasks = done.before
    /\ toasts.latest.title = "Error loading tasks"

\* C2: when a task fetch response arrives without error, the local task
\* sequence becomes exactly the response's sequence, the empty sequence when
\* the response carries no data; nothing of the previous sequence is kept.
C2_FetchReplacesTasks ==
    [][\A c \in calls : (c.kind = "getTasks" /\ SucceededNow(c)) =>
          tasks' = IF c.null THEN <<>> ELSE c.rows
      ]_vars

\* a successful fetch has just replaced a non-empty sequence by one that
\* holds none of its tasks
C2_Witness ==
    /\ done.kind = "getTasks" /\ done.st = "ok"
    /\ done.before # <<>>
    /\ Range(tasks) \cap Range(done.before) = {}

C4_FailedMutationRestoresTasks ==
    [][\A c \in calls : (c.kind \in MutationKinds /\ FailedNow(c)) =>
          tasks' = c.pre
      ]_vars

\* C4 amended: processing the failure of create, update or remove leaves the
\* local task sequence as it was immediately before the failure was processed.
C4_FailedMutationLeavesTasks ==
    [][\A c \in calls : (c.kind \in MutationKinds /\ FailedNow(c)) =>
          tasks' = tasks
      ]_vars

\* a mutation has just failed while the local sequence held tasks and a
\* refresh was outstanding
C4_Witness ==
    /\ done.kind \in MutationKinds /\ done.st = "err"
    /\ tasks # <<>> /\ tasks = done.before
    /\ \E d \in calls : d.kind = "getTasks"

\* C5 as claimed: every task of the local sequence is owned by the
\* authenticated user (here: once the page is rendered for a signed-in user).
C5_TasksOwnedByUser ==
    (user # NoUser /\ ~loading) => \A i \in 1..Len(tasks) : tasks[i].user_id = user

\* nothing is outstanding: every remote call has been answered and its
\* continuation run, every change signal has been delivered
Quiescent == calls = {} /\ \A i \in 1..Len(signals) : signals[i] = 0

\* C6 as claimed: once every outstanding call and signal has been processed,
\* all fetches having succeeded, the local task sequence equals the remote
\* store's sequence for the user (here: for a user who stayed signed in from
\* the start, in runs without any notification or logged error, so without a
\* failed fetch).
C6_Convergent ==
    (/\ Quiescent /\ ~loading
     /\ channels = <<user>> /\ toasts.count = 0 /\ consoleErrors = 0)
        => tasks = TasksOf(user)

\* the rows of the successful fetch response processed last
LastFetched == IF lastFetch = <<>> THEN <<>> ELSE lastFetch[1].rows

\* C7: the local task sequence is the content of the successful fetch response
\* processed last, whatever the order in which the fetches were issued.
C7_LastResponseWins == tasks = LastFetched

\* the response just processed belongs to a fetch issued before another one
\* whose response was processed earlier, and it was processed while a
\* create/update/remove was outstanding
C7_Witness ==
    /\ lastFetch # <<>> /\ lastFetch[1].id < newest
    /\ done.kind = "getTasks" /\ done.st = "ok" /\ tasks # done.before
    /\ \E c \in calls : c.kind \in MutationKinds /\ c.id > newest

\* C8: the local task sequence is the initial empty sequence or one that a
\* successful fetch returned, and only the continuation of a successful fetch
\* changes it: create, update, remove, dialog and filter actions leave it alone.
C8_MirrorOnly ==
    /\ [](tasks # <<>> => lastFetch # <<>> /\ tasks = lastFetch[1].rows)
    /\ [][tasks' # tasks =>
            \E c \in calls : /\ c.kind = "getTasks" /\ SucceededNow(c)
                             /\ tasks' = dataOrEmpty(c)
         ]_vars

\* a remove has just succeeded: the task is gone from the remote store and the
\* local sequence still holds it
C8_Witness ==
    /\ done.kind = "deleteTask" /\ done.st = "ok"
    /\ user # NoUser /\ TasksOf(user) = <<>>
    /\ tasks # <<>> /\ tasks = done.before

\* C9: every change signal delivered triggers one task fetch of its own, for
\* the subscription's user, also while other fetches are in flight.
C9_SignalRefreshes ==
    [][\A i \in 1..Len(signals) : signals'[i] < signals[i] =>
          \E d \in NewCalls : /\ NewCalls = {d}
                              /\ d.kind = "getTasks" /\ d.uid = channels[i]
                              /\ d.st = "sent"
      ]_vars

\* two fetches triggered by two signals are in flight at once
C9_Witness ==
    \E c, d \in calls : /\ c.id # d.id
                        /\ c.kind = "getTasks" /\ c.src = "signal"
                        /\ d.kind = "getTasks" /\ d.src = "signal"

\* C10: a failed task fetch, create, update, delete, profile update or
\* sign-out emits exactly one destructive notification with the remote
\* error's message; a failed profile load emits none, is logged once and
\* leaves the profile as it was.
C10_OneToastPerFailure ==
    [][\A c \in calls : FailedNow(c) =>
          IF c.kind = "getProfile"
          THEN /\ toasts' = toasts
               /\ consoleErrors' = consoleErrors + 1
               /\ profile' = profile
          ELSE /\ toasts'.count = toasts.count + 1
               /\ toasts'.latest.description = RemoteMessage(c.kind)
               /\ toasts'.latest.variant = "destructive"
               /\ consoleErrors' = consoleErrors
      ]_vars

\* the profile load failed without a notification and left the profile unset,
\* then a sign-out failed with one
C10_Witness ==
    /\ consoleErrors = 1 /\ profile = <<>>
    /\ done.kind = "signOut" /\ done.st = "err"
    /\ toasts.count = 1 /\ toasts.latest.description = RemoteMessage("signOut")

\* the kinds of call whose success is followed by one reload
ReloadingKinds == MutationKinds \cup {"updateProfile"}

\* C11: the continuation of a failed call issues no call, and every step that
\* issues calls is a user action (two calls for the load a change of user
\* starts, one otherwise), the delivery of one change signal (one fetch), or
\* the continuation of a successful create, update, remove or profile update
\* (one reload).
C11_NoRetries ==
    [][/\ \A c \in calls : FailedNow(c) => NewCalls = {}
       /\ NewCalls # {} =>
             \/ /\ events' = events + 1
                /\ Cardinality(NewCalls) = IF user' # user THEN 2 ELSE 1
             \/ /\ \E i \in 1..Len(signals) : signals'[i] = signals[i] - 1
                /\ events' = events
                /\ \E d \in NewCalls : NewCalls = {d} /\ d.kind = "getTasks"
             \/ /\ events' = events
                /\ \E c \in calls :
                      /\ SucceededNow(c) /\ c.kind \in ReloadingKinds
                      /\ \E d \in NewCalls :
                            /\ NewCalls = {d}
                            /\ d.kind = IF c.kind = "updateProfile"
                                        THEN "getProfile" ELSE "getTasks"
      ]_vars

\* a remove has just failed, after an earlier notification, and nothing at
\* all is outstanding
C11_Witness ==
    /\ done.kind = "deleteTask" /\ done.st = "err"
    /\ toasts.count = 2
    /\ calls = {} /\ Quiescent

\* C12 as claimed: while the form's title is empty or whitespace-only, no
\* create request and no update request is sent.
C12_BlankTitleSuppresses ==
    [][trim(taskForm.title) = <<>> =>
          \A d \in NewCalls : d.kind \notin {"createTask", "updateTask"}
      ]_vars

\* C13 as claimed: every create and update request carries a non-empty due
\* date or the explicit no-due-date value, never the empty string.
C13_DueDateSubstituted ==
    \A c \in calls : c.kind \in {"createTask", "updateTask"} => c.form.due_date # ""

\* C14: the continuation of a create leaves the local task sequence alone (no
\* record is synthesized locally), and when the refresh a successful create
\* triggered succeeds while the created row is still in the remote store, the
\* local sequence then holds the task under the identifier the store assigned.
C14_CreatedTaskFetched ==
    [][/\ \A c \in calls : (c.kind = "createTask" /\ Processed(c)) => tasks' = tasks
       /\ \A d \in calls :
             (/\ d.kind = "getTasks" /\ d.src = "createTask" /\ SucceededNow(d)
              /\ RowsWithId(d.tid) # {}) =>
                \E i \in 1..Len(tasks') :
                    /\ tasks'[i].id = d.tid
                    /\ tasks'[i].user_id = d.uid
      ]_vars

\* the refresh after a create has just brought the created task, under the
\* identifier the store assigned last, into the local sequence
C14_Witness ==
    /\ done.kind = "getTasks" /\ done.st = "ok" /\ done.src = "createTask"
    /\ \E t \in Range(tasks) :
          /\ t.id = nextId - 1 /\ t.title = <<"a">>
          /\ t \notin Range(done.before)

\* x and y are the same letter up to case
SameLetter(x, y) == x = y \/ {x, y} = {"A", "a"}

\* s contains sub, case-insensitively
ContainsCI(s, sub) ==
    \E i \in 0..(Len(s) - Len(sub)) :
        \A k \in 1..Len(sub) : SameLetter(s[i + k], sub[k])

\* the three predicates of the filter, as the claim words them
Matches(t) ==
    /\ statusFilter = "all" \/ t.status = statusFilter
    /\ priorityFilter = "all" \/ t.priority = priorityFilter
    /\ \/ searchTerm = <<>>
       \/ ContainsCI(t.title, searchTerm)
       \/ ContainsCI(t.description, searchTerm)

MatchingIndices == {i \in 1..Len(tasks) : Matches(tasks[i])}

\* C15: the filtered view is exactly the subsequence of the local tasks that
\* satisfy the status, priority and case-insensitive search predicates, in
\* their original order; changing the filters issues no remote call and
\* leaves the local sequence alone.
C15_FilterExact ==
    /\ [](/\ Len(filteredTasks) = Cardinality(MatchingIndices)
          /\ \A n \in 1..Len(filteredTasks) :
                \E i \in MatchingIndices :
                    /\ Cardinality({j \in MatchingIndices : j <= i}) = n
                    /\ filteredTasks[n] = tasks[i])
    /\ [][<<searchTerm, statusFilter, priorityFilter>>' #
             <<searchTerm, statusFilter, priorityFilter>>
           => calls' = calls /\ ncalls' = ncalls /\ tasks' = tasks]_vars

\* after a change of the filters the view keeps the first and the third of
\* three tasks, the first matching the search term only up to case
C15_Witness ==
    /\ events > 0
    /\ Len(tasks) = 3 /\ filteredTasks = <<tasks[1], tasks[3]>>
    /\ searchTerm = <<"a">>
    /\ ~includes(tasks[1].title, searchTerm)
    /\ ~includes(tasks[1].description, searchTerm)

\* C16: when every local task's status is pending, in_progress or completed,
\* total is the length of the local sequence and equals completed + pending
\* + inProgress.
C16_StatsAddUp ==
    (\A i \in 1..Len(tasks) : tasks[i].status \in Statuses) =>
        /\ taskStats.total = Len(tasks)
        /\ taskStats.total =
              taskStats.completed + taskStats.pending + taskStats.inProgress

\* three tasks, one of each status
C16_Witness ==
    /\ Len(tasks) = 3
    /\ {tasks[i].status : i \in 1..3} = Statuses
    /\ taskStats = [total |-> 3, completed |-> 1, pending |-> 1, inProgress |-> 1]

\* C17: when a task fetch succeeds after an earlier successful one, and both
\* responses carry what the remote store holds for the user (no remote
\* mutation lies between them), the local task sequence after the second is
\* the one after the first.
C17_RefreshIdempotent ==
    [][\A c \in calls :
          (/\ c.kind = "getTasks" /\ SucceededNow(c)
           /\ lastFetch # <<>>
           /\ lastFetch[1].rows = TasksOf(c.uid)
           /\ c.rows = TasksOf(c.uid)) =>
              tasks' = tasks
      ]_vars

\* a fetch triggered by a change signal has just succeeded and left the
\* non-empty local sequence, already equal to the store's, as it was
C17_Witness ==
    /\ done.kind = "getTasks" /\ done.st = "ok" /\ done.src = "signal"
    /\ lastFetch # <<>> /\ lastFetch[1].id = done.id
    /\ tasks # <<>> /\ tasks = done.before
    /\ user # NoUser /\ tasks = TasksOf(user)

\* C18: opening the dialog for a new task leaves the buffer at the defaults
\* and no editing target, whatever they were; opening it for a task makes
\* that task the editing target and seeds the buffer from its fields, the
\* empty string standing for an absent due date; a submit issues one request,
\* an update of the editing target when there is one and a create otherwise.
C18_FormSeeding ==
    [][/\ openTaskDialog(<<>>) =>
             /\ editingTask' = <<>>
             /\ taskForm' = [title |-> <<>>, description |-> <<>>,
                             status |-> "pending", priority |-> "medium",
                             due_date |-> ""]
       /\ \A t \in Range(tasks) : openTaskDialog(<<t>>) =>
             /\ editingTask' = <<t>>
             /\ taskForm' = [title |-> t.title, description |-> t.description,
                             status |-> t.status, priority |-> t.priority,
                             due_date |-> IF t.due_date = NullDate THEN ""
                                          ELSE t.due_date]
       /\ SubmitTaskForm =>
             \E d \in NewCalls :
                 /\ NewCalls = {d}
                 /\ IF editingTask # <<>>
                    THEN d.kind = "updateTask" /\ d.tid = editingTask[1].id
                    ELSE d.kind = "createTask"
      ]_vars

\* the dialog was opened for a task without a due date and submitted: the
\* buffer holds the task's title and the empty string as due date, and an
\* update of that task is outstanding
C18_Witness ==
    /\ isTaskDialogOpen /\ editingTask # <<>>
    /\ editingTask[1].due_date = NullDate /\ taskForm.due_date = ""
    /\ taskForm.title = editingTask[1].title
    /\ \E c \in calls : c.kind = "updateTask" /\ c.tid = editingTask[1].id

\* C19 as claimed: loading is true as long as the task fetch or the profile
\* fetch of the initial load has not completed.
C19_LoadingUntilLoaded ==
    (\E c \in calls : c.src = "load" /\ c.grp = 1) => loading

\* C20 as claimed: at most one change-feed subscription is active at any
\* time, and it is the one of the authenticated user, so that no signal for a
\* previous user triggers a fetch.
C20_OneSubscription ==
    /\ Len(channels) <= 1
    /\ \A i \in 1..Len(channels) : channels[i] = user

\* C21 as claimed: while a create request (an update request) sent by a
\* submit is outstanding, no second one is sent.
C21_SingleSubmission ==
    \A k \in {"createTask", "updateTask"} :
        Cardinality({c \in calls : c.kind = k}) <= 1

\* C22: when a create or update fails, the task dialog's open flag, the edit
\* buffer and the editing target stay as they are; when it succeeds, the same
\* step closes the dialog, resets the buffer to the defaults and, for an
\* update, clears the editing target, while the local task sequence is still
\* the old one and the refresh, if one is issued, is only just outstanding.
C22_DialogAfterSubmission ==
    [][\A c \in calls :
          (c.kind \in {"createTask", "updateTask"} /\ Processed(c)) =>
              IF c.st = "sent"
              THEN /\ isTaskDialogOpen' = isTaskDialogOpen
                   /\ taskForm' = taskForm
                   /\ editingTask' = editingTask
              ELSE /\ ~isTaskDialogOpen'
                   /\ taskForm' = [title |-> <<>>, description |-> <<>>,
                                   status |-> "pending", priority |-> "medium",
                                   due_date |-> ""]
                   /\ editingTask' = IF c.kind = "updateTask" THEN <<>>
                                     ELSE editingTask
                   /\ tasks' = tasks
                   /\ \A d \in NewCalls : d.kind = "getTasks" /\ d.st = "sent"
      ]_vars

\* an update has just failed with the dialog open: the buffer still holds the
\* task's title and the editing target is still set
C22_Witness ==
    /\ done.kind = "updateTask" /\ done.st = "err"
    /\ toasts.latest.title = "Error updating task"
    /\ isTaskDialogOpen /\ editingTask # <<>>
    /\ taskForm.title = editingTask[1].title

\* C23 as claimed: whenever an editing target is set, it is a task of the
\* local task sequence, with the same field values.
C23_EditingTargetPresent ==
    editingTask # <<>> => editingTask[1] \in Range(tasks)

\* C23 amended: the editing target is set only to a task the local sequence
\* holds at that moment; a step that replaces the local sequence leaves the
\* editing target as it is; and every update request is sent for the editing
\* target's identifier, whether or not the local sequence still holds it.
C23_EditingTargetSnapshot ==
    [][/\ (editingTask' # editingTask /\ editingTask' # <<>>) =>
             editingTask'[1] \in Range(tasks) /\ tasks' = tasks
       /\ tasks' # tasks => editingTask' = editingTask
       /\ \A d \in NewCalls : d.kind = "updateTask" =>
             editingTask # <<>> /\ d.tid = editingTask[1].id
      ]_vars

\* the edit dialog is open for a task that a refresh has meanwhile removed
\* from the local sequence, and an update for it was sent after that
C23_Witness ==
    /\ isTaskDialogOpen /\ editingTask # <<>>
    /\ \A t \in Range(tasks) : t.id # editingTask[1].id
    /\ \E c \in calls :
          /\ c.kind = "updateTask" /\ c.tid = editingTask[1].id
          /\ \A t \in Range(c.pre) : t.id # c.tid

====
